---- MODULE Spec2Model ----
(***************************************************************************)
(* Model of comfy/ldm/flux/model.py: the Flux constructor, Flux.forward    *)
(* and Flux.forward_orig.                                                  *)
(*                                                                         *)
(* Tensors that the code rearranges (x, the patch tensor, the output) are  *)
(* modelled element for element as [shape, data] with data in row-major    *)
(* order.  Inside forward_orig the sub-layers are opaque, so img and txt   *)
(* are modelled by their layout along dimension 1: one token record per    *)
(* position, carrying where the token came from and how many blocks have   *)
(* been applied to it.                                                     *)
(***************************************************************************)
EXTENDS Integers, Sequences, FiniteSets, TLC

\* ------------------------------------------------------------- bounds
MaxDepth == 2
MaxSingle == 2
MaxTxt == 2
MaxLen == 2
BigLen == 258

\* ------------------------------------------------- enumerated inputs
HiddenSizes == {12, 16}
NumHeads == {2, 3}
AxesDims == {<<2, 2, 2>>}
InChannels == {4, 8}
Batches == {1, 2}
Widths == {3, 4}
NDims == {2, 3, 4}
DTypes == {"bfloat16", "float32"}
Guidances == {"None", "g"}

\* ------------------------------------------------------ pure helpers
RECURSIVE SumSeq(_)
SumSeq(s) == IF s = <<>> THEN 0 ELSE Head(s) + SumSeq(Tail(s))

RECURSIVE ProdSeq(_)
ProdSeq(s) == IF s = <<>> THEN 1 ELSE Head(s) * ProdSeq(Tail(s))

Pow2(n) == 2 ^ n

\* Number of significand bits (hidden bit included) of a torch dtype.
Precision(dtype) ==
    CASE dtype = "bfloat16" -> 8
      [] dtype = "float16" -> 11
      [] dtype = "float32" -> 24

RECURSIVE Ulp(_, _, _)
Ulp(n, p, u) == IF n < Pow2(p) * u THEN u ELSE Ulp(n, p, 2 * u)

\* The value a non-negative integer takes when stored in a tensor of the
\* given dtype: round to nearest, ties to even.
Cast(n, dtype) ==
    LET u == Ulp(n, Precision(dtype), 1)
        lo == (n \div u) * u
        rem == n - lo
    IN  IF 2 * rem < u THEN lo
        ELSE IF 2 * rem > u THEN lo + u
        ELSE IF (n \div u) % 2 = 0 THEN lo ELSE lo + u

\* torch.linspace(0, n - 1, steps=n, dtype=dtype) as a sequence.
Linspace(n, dtype) == [j \in 1..n |-> Cast(j - 1, dtype)]

\* Row-major index arithmetic.
Unravel(o, dims) ==
    [j \in 1..Len(dims) |->
        (o \div ProdSeq(SubSeq(dims, j + 1, Len(dims)))) % dims[j]]

RECURSIVE Ravel(_, _)
Ravel(idx, dims) ==
    IF idx = <<>> THEN 0
    ELSE Ravel(SubSeq(idx, 1, Len(idx) - 1), SubSeq(dims, 1, Len(dims) - 1))
             * dims[Len(dims)] + idx[Len(idx)]

\* einops.rearrange of row-major data: split into the elementary axes
\* inDims, move input axis perm[j] to output position j, merge again.
Transpose(data, inDims, perm) ==
    LET outDims == [j \in 1..Len(perm) |-> inDims[perm[j]]]
        src(o) ==
            LET oi == Unravel(o, outDims)
                ii == [a \in 1..Len(inDims) |->
                          oi[CHOOSE j \in 1..Len(perm) : perm[j] = a]]
            IN  Ravel(ii, inDims)
    IN  [o \in 1..Len(data) |-> data[src(o - 1) + 1]]

\* The first pattern with ph and pw exchanged on its right-hand side:
\*   "b c (h ph) (w pw) -> b (h w) (c pw ph)"
PatchPermSwapped == <<1, 3, 5, 2, 6, 4>>

\* Axis orders of the two patterns; elementary input axes are numbered in
\* the order the left-hand side of the pattern names them.
\*   "b c (h ph) (w pw) -> b (h w) (c ph pw)"
PatchPerm == <<1, 3, 5, 2, 4, 6>>
\*   "b (h w) (c ph pw) -> b c (h ph) (w pw)"
UnpatchPerm == <<1, 4, 2, 5, 3, 6>>

\* rearrange(x, "b c (h ph) (w pw) -> b (h w) (c ph pw)", ph=2, pw=2)
Patchify(t) ==
    LET b == t.shape[1]
        c == t.shape[2]
        h == t.shape[3] \div 2
        w == t.shape[4] \div 2
    IN  [shape |-> <<b, h * w, c * 2 * 2>>,
         data |-> Transpose(t.data, <<b, c, h, 2, w, 2>>, PatchPerm)]

\* rearrange(out, "b (h w) (c ph pw) -> b c (h ph) (w pw)", h=, w=, ph=2, pw=2)
Unpatchify(t, h, w) ==
    LET b == t.shape[1]
        c == t.shape[3] \div (2 * 2)
    IN  [shape |-> <<b, c, h * 2, w * 2>>,
         data |-> Transpose(t.data, <<b, h, w, c, 2, 2>>, UnpatchPerm)]

\* A tensor whose elements are numbered in row-major order from base.
Labelled(shape, base) ==
    [shape |-> shape, data |-> [j \in 1..ProdSeq(shape) |-> base + j - 1]]

\* ------------------------------------------------------------- state
VARIABLES
    params,     \* FluxParams given to the constructor (self.params)
    pc,         \* position in __init__ / forward / forward_orig
    err,        \* the exception raised, or "none"
    layers,     \* the sub-layers the constructor has created
    entry,      \* which method the caller invoked
    x,          \* forward's input tensor, with its dtype
    context,    \* forward's context tensor: [ndim, len]
    guidance,   \* the guidance argument: "None" or a tensor "g"
    xp,         \* the patch tensor of line 127, element for element
    h_len,
    w_len,
    img,        \* forward_orig's img: [ndim, batch, toks, feat]
    txt,        \* forward_orig's txt: [ndim, toks, feat]
    img_ids,
    txt_ids,
    ids,
    pe,
    vec,        \* the summands of the conditioning vector
    blk,        \* how many iterations the current for loop has made
    trace,      \* the sub-layer calls made so far, in order
    out,        \* the tensor forward_orig returns
    result      \* the value returned to the caller

vars == <<params, pc, err, layers, entry, x, context, guidance, xp, h_len,
          w_len, img, txt, img_ids, txt_ids, ids, pe, vec, blk, trace, out,
          result>>

callVars == <<entry, x, context, guidance, xp, h_len, w_len, img, txt,
              img_ids, txt_ids, ids, pe, vec, blk, trace, out, result>>

NoTensor == [shape |-> <<>>, data |-> <<>>]
NoLayers == [made |-> {}, guidance_in |-> "none",
             double_blocks |-> <<>>, single_blocks |-> <<>>]
NoImg == [ndim |-> 0, batch |-> 0, toks |-> <<>>, feat |-> 0]
NoTxt == [ndim |-> 0, toks |-> <<>>, feat |-> 0]

\* FluxParams (lines 19-32); mlp_ratio, theta, qkv_bias and vec_in_dim are
\* only handed on to the sub-layers.
ParamSpace ==
    [in_channels : InChannels, context_in_dim : {5},
     hidden_size : HiddenSizes, num_heads : NumHeads,
     depth : 0..MaxDepth, depth_single_blocks : 0..MaxSingle,
     axes_dim : AxesDims, guidance_embed : BOOLEAN]

\* The tokens of a fresh sequence of n positions coming from src.
Toks(src, n) == [k \in 1..n |-> [src |-> src, idx |-> k, blocks |-> 0]]

Event(op, k, v, p) == [op |-> op, k |-> k, vec |-> v, pe |-> p]
Call(op) == Event(op, 0, <<>>, <<>>)

Init ==
    /\ params \in ParamSpace
    /\ pc = "init"
    /\ err = "none"
    /\ layers = NoLayers
    /\ entry = "none"
    /\ x = [shape |-> <<>>, dtype |-> "none", data |-> <<>>]
    /\ context = [ndim |-> 0, len |-> 0]
    /\ guidance = "None"
    /\ xp = NoTensor
    /\ h_len = 0
    /\ w_len = 0
    /\ img = NoImg
    /\ txt = NoTxt
    /\ img_ids = <<>>
    /\ txt_ids = <<>>
    /\ ids = <<>>
    /\ pe = <<>>
    /\ vec = <<>>
    /\ blk = 0
    /\ trace = <<>>
    /\ out = NoTensor
    /\ result = NoTensor

\* ------------------------------------------------------ Flux.__init__
\* The positional dimension without the division by num_heads.
PeDimUndivided(hidden_size, num_heads) == hidden_size

\* line 47
NotDivisible(hidden_size, num_heads) == hidden_size % num_heads # 0

\* line 51
PeDim(hidden_size, num_heads) == hidden_size \div num_heads

\* lines 47-50
init_check_heads ==
    /\ pc = "init"
    /\ IF NotDivisible(params.hidden_size, params.num_heads)
       THEN /\ err' = "ValueError: hidden size must be divisible by num_heads"
            /\ pc' = "raised"
       ELSE /\ err' = err
            /\ pc' = "init_axes"
    /\ UNCHANGED <<params, layers, callVars>>

\* lines 51-53
init_check_axes ==
    /\ pc = "init_axes"
    /\ IF SumSeq(params.axes_dim) # PeDim(params.hidden_size, params.num_heads)
       THEN /\ err' = "ValueError: expected positional dim"
            /\ pc' = "raised"
       ELSE /\ err' = err
            /\ pc' = "init_layers"
    /\ UNCHANGED <<params, layers, callVars>>

\* lines 54-85
init_layers ==
    /\ pc = "init_layers"
    /\ layers' =
         [made |-> {"pe_embedder", "img_in", "time_in", "vector_in",
                    "guidance_in", "txt_in", "double_blocks",
                    "single_blocks", "final_layer"},
          guidance_in |->
              IF params.guidance_embed THEN "MLPEmbedder" ELSE "Identity",
          double_blocks |-> [k \in 1..params.depth |-> "DoubleStreamBlock"],
          single_blocks |->
              [k \in 1..params.depth_single_blocks |-> "SingleStreamBlock"]]
    /\ pc' = "ready"
    /\ UNCHANGED <<params, err, callVars>>

\* ------------------------------------------------------- the caller
\* What a caller passes to forward: every combination of a small shape
\* (of either parity), a dtype, a context and a guidance, and one tall image
\* in each dtype.
SmallShapes(c) == {<<b, c, h, w>> : b \in Batches, h \in 2..(2 * MaxLen), w \in Widths}

TallShape(c) == <<1, c, 2 * BigLen, 2>>

ForwardCalls(c) ==
    [shape : SmallShapes(c), dtype : DTypes, nd : NDims, L : 0..MaxTxt,
     g : Guidances]
    \cup [shape : {TallShape(c)}, dtype : DTypes, nd : {3}, L : {1}, g : {"g"}]

\* model.forward(x, timestep, context, y, guidance)
call_forward ==
    /\ pc = "ready"
    /\ \E a \in ForwardCalls(params.in_channels \div 4) :
          /\ x' = [shape |-> a.shape, dtype |-> a.dtype,
                   data |-> Labelled(a.shape, 0).data]
          /\ context' = [ndim |-> a.nd, len |-> a.L]
          /\ guidance' = a.g
    /\ entry' = "forward"
    /\ pc' = "fwd_rearrange"
    /\ UNCHANGED <<params, err, layers, xp, h_len, w_len, img, txt, img_ids,
                   txt_ids, ids, pe, vec, blk, trace, out, result>>

\* ---------------------------------------------------------- Flux.forward
\* lines 131-134: the ids of the h_len x w_len grid, repeated over the batch.
ImgIds(hl, wl, bs, dtype) ==
    LET rows == Linspace(hl, dtype)
        cols == Linspace(wl, dtype)
        zero == Cast(0, dtype)
        grid == [r \in 1..hl |-> [q \in 1..wl |->
                    <<zero, Cast(zero + rows[r], dtype),
                      Cast(zero + cols[q], dtype)>>]]
    IN  [bi \in 1..bs |-> [k \in 1..(hl * wl) |->
            grid[((k - 1) \div wl) + 1][((k - 1) % wl) + 1]]]

\* line 136
TxtIds(bs, n, dtype) ==
    [bi \in 1..bs |-> [k \in 1..n |->
        <<Cast(0, dtype), Cast(0, dtype), Cast(0, dtype)>>]]

\* lines 126-127; einops refuses an axis it cannot split in chunks of 2.
forward_rearrange ==
    /\ pc = "fwd_rearrange"
    /\ IF x.shape[3] % 2 # 0 \/ x.shape[4] % 2 # 0
       THEN /\ err' = "EinopsError"
            /\ pc' = "raised"
            /\ UNCHANGED <<xp, img>>
       ELSE /\ xp' = Patchify(x)
            /\ img' = [ndim |-> 3, batch |-> xp'.shape[1],
                       toks |-> Toks("img", xp'.shape[2]),
                       feat |-> xp'.shape[3]]
            /\ pc' = "fwd_ids"
            /\ err' = err
    /\ UNCHANGED <<params, layers, entry, x, context, guidance, h_len, w_len,
                   txt, img_ids, txt_ids, ids, pe, vec, blk, trace, out,
                   result>>

\* lines 129-137, up to the call of forward_orig
forward_ids ==
    /\ pc = "fwd_ids"
    /\ h_len' = x.shape[3] \div 2
    /\ w_len' = x.shape[4] \div 2
    /\ img_ids' = ImgIds(h_len', w_len', x.shape[1], x.dtype)
    /\ txt_ids' = TxtIds(x.shape[1], context.len, x.dtype)
    /\ txt' = [ndim |-> context.ndim, toks |-> Toks("txt", context.len),
               feat |-> params.context_in_dim]
    /\ pc' = "fo_check"
    /\ UNCHANGED <<params, err, layers, entry, x, context, guidance, xp, img,
                   ids, pe, vec, blk, trace, out, result>>

\* model.forward_orig(img, img_ids, txt, txt_ids, timesteps, y, guidance)
\* called directly, with one id per token.
call_forward_orig ==
    /\ pc = "ready"
    /\ \E ni \in NDims, nt \in NDims, hl \in 0..MaxLen, wl \in {1},
          L \in 0..MaxTxt, g \in Guidances :
          /\ img' = [ndim |-> ni, batch |-> 1, toks |-> Toks("img", hl * wl),
                     feat |-> params.in_channels]
          /\ txt' = [ndim |-> nt, toks |-> Toks("txt", L),
                     feat |-> params.context_in_dim]
          /\ img_ids' = ImgIds(hl, wl, 1, "float32")
          /\ txt_ids' = TxtIds(1, L, "float32")
          /\ guidance' = g
    /\ entry' = "forward_orig"
    /\ pc' = "fo_check"
    /\ UNCHANGED <<params, err, layers, x, context, xp, h_len, w_len, ids, pe,
                   vec, blk, trace, out, result>>

\* ------------------------------------------------------ Flux.forward_orig
\* A check of img alone.
BadDimsImgOnly(i, t) == i.ndim # 3

\* line 97
BadDims(i, t) == i.ndim # 3 \/ t.ndim # 3

\* A check that never finds the guidance missing.
GuidanceNeverMissing(g) == FALSE

\* line 104
GuidanceMissing(g) == g = "None"

\* lines 111 and 117: torch.cat((a, b), dim=1) on the dim-1 layout
Cat(a, b) == a \o b

\* The ids concatenated image first.
CatIdsSwapped(tids, iids) == [bi \in 1..Len(tids) |-> iids[bi] \o tids[bi]]

\* line 111, for every batch element
CatIds(tids, iids) == [bi \in 1..Len(tids) |-> Cat(tids[bi], iids[bi])]

\* line 117
CatTokens(t, i) == Cat(t, i)

\* The slice img[:, :-n, ...] (for n > 0), which keeps the head.
SliceHead(toks, n) == SubSeq(toks, 1, Len(toks) - n)

\* line 120: img[:, n:, ...]
SliceFrom(toks, n) == SubSeq(toks, n + 1, Len(toks))

\* A loop that stops one block short.
HasNextShort(done, blocks) == done < Len(blocks) - 1

\* lines 114 and 118: whether the for loop has another block to run
HasNext(done, blocks) == done < Len(blocks)

\* A transformer block keeps every position of the sequence it is given.
ApplyBlock(toks) == [k \in 1..Len(toks) |-> [toks[k] EXCEPT !.blocks = @ + 1]]

\* EmbedND: the rotary encoding of each position is made from its own id.
EmbedND(i) == [bi \in 1..Len(i) |-> [k \in 1..Len(i[bi]) |-> [rope |-> i[bi][k]]]]

\* LastLayer(hidden_size, 1, out_channels): (N, T, patch_size ** 2 * out_channels)
LastLayer(i, out_channels) ==
    Labelled(<<i.batch, Len(i.toks), 1 * 1 * out_channels>>, 0)

fo_unchanged == <<params, layers, entry, x, context, guidance, xp, h_len, w_len,
                  img_ids, txt_ids, out, result>>

\* lines 97-98
forward_orig_check ==
    /\ pc = "fo_check"
    /\ IF BadDims(img, txt)
       THEN /\ err' = "ValueError: Input img and txt tensors must have 3 dimensions."
            /\ pc' = "raised"
       ELSE /\ err' = err
            /\ pc' = "fo_img_in"
    /\ UNCHANGED <<fo_unchanged, img, txt, ids, pe, vec, blk, trace>>

\* lines 101-102
forward_orig_img_in ==
    /\ pc = "fo_img_in"
    /\ img' = [img EXCEPT !.feat = params.hidden_size]
    /\ vec' = <<"time_in">>
    /\ trace' = trace \o <<Call("img_in"), Call("time_in")>>
    /\ pc' = "fo_guidance"
    /\ UNCHANGED <<fo_unchanged, err, txt, ids, pe, blk>>

\* lines 103-106
forward_orig_guidance ==
    /\ pc = "fo_guidance"
    /\ IF params.guidance_embed
       THEN IF GuidanceMissing(guidance)
            THEN /\ err' = "ValueError: Didn't get guidance strength for guidance distilled model."
                 /\ pc' = "raised"
                 /\ UNCHANGED <<vec, trace>>
            ELSE /\ vec' = Append(vec, "guidance_in")
                 /\ trace' = Append(trace, Call("guidance_in"))
                 /\ pc' = "fo_vector_in"
                 /\ err' = err
       ELSE /\ pc' = "fo_vector_in"
            /\ UNCHANGED <<err, vec, trace>>
    /\ UNCHANGED <<fo_unchanged, img, txt, ids, pe, blk>>

\* lines 108-109
forward_orig_vector_in ==
    /\ pc = "fo_vector_in"
    /\ vec' = Append(vec, "vector_in")
    /\ txt' = [txt EXCEPT !.feat = params.hidden_size]
    /\ trace' = trace \o <<Call("vector_in"), Call("txt_in")>>
    /\ pc' = "fo_pe"
    /\ UNCHANGED <<fo_unchanged, err, img, ids, pe, blk>>

\* lines 111-112
forward_orig_pe ==
    /\ pc = "fo_pe"
    /\ ids' = CatIds(txt_ids, img_ids)
    /\ pe' = EmbedND(ids')
    /\ trace' = Append(trace, Call("pe_embedder"))
    /\ blk' = 0
    /\ pc' = "fo_double"
    /\ UNCHANGED <<fo_unchanged, err, img, txt, vec>>

\* lines 114-115: one iteration of the loop over double_blocks
forward_orig_double ==
    /\ pc = "fo_double"
    /\ HasNext(blk, layers.double_blocks)
    /\ img' = [img EXCEPT !.toks = ApplyBlock(@)]
    /\ txt' = [txt EXCEPT !.toks = ApplyBlock(@)]
    /\ trace' = Append(trace, Event("double_blocks", blk + 1, vec, pe))
    /\ blk' = blk + 1
    /\ UNCHANGED <<fo_unchanged, pc, err, ids, pe, vec>>

\* line 117, once the loop over double_blocks is exhausted
forward_orig_cat ==
    /\ pc = "fo_double"
    /\ ~HasNext(blk, layers.double_blocks)
    /\ img' = [img EXCEPT !.toks = CatTokens(txt.toks, @)]
    /\ trace' = Append(trace, Call("cat"))
    /\ blk' = 0
    /\ pc' = "fo_single"
    /\ UNCHANGED <<fo_unchanged, err, txt, ids, pe, vec>>

\* lines 118-119: one iteration of the loop over single_blocks
forward_orig_single ==
    /\ pc = "fo_single"
    /\ HasNext(blk, layers.single_blocks)
    /\ img' = [img EXCEPT !.toks = ApplyBlock(@)]
    /\ trace' = Append(trace, Event("single_blocks", blk + 1, vec, pe))
    /\ blk' = blk + 1
    /\ UNCHANGED <<fo_unchanged, pc, err, txt, ids, pe, vec>>

\* line 120, once the loop over single_blocks is exhausted
forward_orig_slice ==
    /\ pc = "fo_single"
    /\ ~HasNext(blk, layers.single_blocks)
    /\ img' = [img EXCEPT !.toks = SliceFrom(@, Len(txt.toks))]
    /\ trace' = Append(trace, Call("slice"))
    /\ pc' = "fo_final"
    /\ UNCHANGED <<fo_unchanged, err, txt, ids, pe, vec, blk>>

\* lines 122-123
forward_orig_final ==
    /\ pc = "fo_final"
    /\ img' = [img EXCEPT !.feat = 1 * 1 * params.in_channels]
    /\ out' = LastLayer(img, params.in_channels)
    /\ trace' = Append(trace, Event("final_layer", 0, vec, <<>>))
    /\ IF entry = "forward"
       THEN pc' = "fwd_return" /\ result' = result
       ELSE pc' = "done" /\ result' = out'
    /\ UNCHANGED <<params, layers, entry, x, context, guidance, xp, h_len,
                   w_len, img_ids, txt_ids, err, txt, ids, pe, vec, blk>>

\* line 138; einops checks the lengths it is told against the tensor.
forward_return ==
    /\ pc = "fwd_return"
    /\ IF out.shape[2] # h_len * w_len \/ out.shape[3] % (2 * 2) # 0
       THEN /\ err' = "EinopsError"
            /\ pc' = "raised"
            /\ result' = result
       ELSE /\ result' = Unpatchify(out, h_len, w_len)
            /\ pc' = "done"
            /\ err' = err
    /\ UNCHANGED <<params, layers, entry, x, context, guidance, xp, h_len,
                   w_len, img, txt, img_ids, txt_ids, ids, pe, vec, blk,
                   trace, out>>

Next ==
    \/ init_check_heads
    \/ init_check_axes
    \/ init_layers
    \/ call_forward
    \/ call_forward_orig
    \/ forward_rearrange
    \/ forward_ids
    \/ forward_orig_check
    \/ forward_orig_img_in
    \/ forward_orig_guidance
    \/ forward_orig_vector_in
    \/ forward_orig_pe
    \/ forward_orig_double
    \/ forward_orig_cat
    \/ forward_orig_single
    \/ forward_orig_slice
    \/ forward_orig_final
    \/ forward_return

Spec == Init /\ [][Next]_vars

\* ------------------------------------- the two rearrangements back to back
\* The pair of rearrange calls of forward (lines 127 and 138) applied to one
\* tensor, with h_len and w_len computed as forward computes them.
Channels == {1, 2, 3}

PatchShapes ==
    {<<b, c, 2 * h, 2 * w>> : b \in Batches, c \in Channels,
                              h \in 1..MaxLen, w \in 1..MaxLen}

InitPatch ==
    /\ params = CHOOSE p \in ParamSpace : TRUE
    /\ pc = "rearrange"
    /\ err = "none"
    /\ layers = NoLayers
    /\ entry = "rearrange"
    /\ \E shape \in PatchShapes :
          x = [shape |-> shape, dtype |-> "float32",
               data |-> Labelled(shape, 0).data]
    /\ context = [ndim |-> 0, len |-> 0]
    /\ guidance = "None"
    /\ xp = NoTensor
    /\ h_len = 0
    /\ w_len = 0
    /\ img = NoImg
    /\ txt = NoTxt
    /\ img_ids = <<>>
    /\ txt_ids = <<>>
    /\ ids = <<>>
    /\ pe = <<>>
    /\ vec = <<>>
    /\ blk = 0
    /\ trace = <<>>
    /\ out = NoTensor
    /\ result = NoTensor

\* lines 126-130
rearrange_in ==
    /\ pc = "rearrange"
    /\ xp' = Patchify(x)
    /\ h_len' = x.shape[3] \div 2
    /\ w_len' = x.shape[4] \div 2
    /\ pc' = "rearranged"
    /\ UNCHANGED <<params, err, layers, entry, x, context, guidance, img, txt,
                   img_ids, txt_ids, ids, pe, vec, blk, trace, out, result>>

\* line 138
rearrange_out ==
    /\ pc = "rearranged"
    /\ result' = Unpatchify(xp, h_len, w_len)
    /\ pc' = "restored"
    /\ UNCHANGED <<params, err, layers, entry, x, context, guidance, xp, h_len,
                   w_len, img, txt, img_ids, txt_ids, ids, pe, vec, blk,
                   trace, out>>

NextPatch ==
    \/ Next
    \/ rearrange_in
    \/ rearrange_out

SpecPatch == (Init \/ InitPatch) /\ [][NextPatch]_vars

\* ============================================================== claims
IsPrefix(a, b) == Len(a) <= Len(b) /\ a = SubSeq(b, 1, Len(a))

Count(seq, v) == Cardinality({j \in 1..Len(seq) : seq[j] = v})

BlockOpNames == {"double_blocks", "cat", "single_blocks", "final_layer"}

IsBlockOp(e) == e.op \in BlockOpNames

\* The block-level calls made so far, as <<op, index>> pairs.
BlockOps ==
    LET sel == SelectSeq(trace, IsBlockOp)
    IN  [j \in 1..Len(sel) |-> <<sel[j].op, sel[j].k>>]

ExpectedOrder ==
    [k \in 1..params.depth |-> <<"double_blocks", k>>]
        \o <<(<<"cat", 0>>)>>
        \o [k \in 1..params.depth_single_blocks |-> <<"single_blocks", k>>]
        \o <<(<<"final_layer", 0>>)>>

AfterFinal == pc \in {"fwd_return", "done"} \/ (pc = "raised" /\ out # NoTensor)

\* C1: at every moment the block-level calls made so far are an initial
\* part of: double block 1..depth in list order, the concatenation, single
\* block 1..depth_single_blocks in list order, the final layer; and once
\* forward_orig has returned they are exactly that sequence, each once.
C1_BlockOrder ==
    /\ IsPrefix(BlockOps, ExpectedOrder)
    /\ AfterFinal => BlockOps = ExpectedOrder

C1_Witness ==
    /\ pc = "done"
    /\ params.depth = 2
    /\ params.depth_single_blocks = 2
    /\ Len(BlockOps) = 6

\* C2: unembedding the embedding of x gives x back, element for element
\* and with the same shape; and what forward returns has the shape of x.
C2_RoundTrip ==
    /\ pc = "restored" => result.shape = x.shape /\ result.data = x.data
    /\ (pc = "done" /\ entry = "forward") => result.shape = x.shape

C2_Witness ==
    /\ pc = "restored"
    /\ x.shape = <<2, 2, 4, 4>>
    /\ xp.data # x.data

GuidanceError == "ValueError: Didn't get guidance strength for guidance distilled model."

PastGuidance ==
    pc \in {"fo_vector_in", "fo_pe", "fo_double", "fo_single", "fo_final",
            "fwd_return", "done"}

\* C3: a model built with guidance_embed never gets past the guidance step
\* with guidance = None: it raises the ValueError, and no block and no final
\* layer has been applied by then; with a guidance tensor the guidance
\* embedding is one summand of vec, exactly once.
C3_Guidance ==
    /\ err = GuidanceError =>
          /\ params.guidance_embed /\ guidance = "None"
          /\ BlockOps = <<>>
    /\ (params.guidance_embed /\ guidance = "None") => ~PastGuidance
    /\ (params.guidance_embed /\ guidance # "None" /\ PastGuidance) =>
          Count(vec, "guidance_in") = 1

C3_Witness ==
    /\ err = GuidanceError
    /\ pc = "raised"
    /\ params.depth > 0

ValidParams ==
    /\ params.hidden_size % params.num_heads = 0
    /\ SumSeq(params.axes_dim) * params.num_heads = params.hidden_size

InCtor == pc \in {"init", "init_axes", "init_layers"}

CtorRaised == pc = "raised" /\ entry = "none"

DimsError == "ValueError: Input img and txt tensors must have 3 dimensions."

PastCheck ==
    pc \in {"fo_img_in", "fo_guidance", "fo_vector_in", "fo_pe", "fo_double",
            "fo_single", "fo_final", "fwd_return", "done"}
        \/ err = GuidanceError

\* C5: forward_orig raises the 3-dimensions ValueError exactly when img or
\* txt is not 3-dimensional, and no layer has been applied by then.
C5_Dims ==
    /\ err = DimsError => (img.ndim # 3 \/ txt.ndim # 3) /\ trace = <<>>
    /\ PastCheck => img.ndim = 3 /\ txt.ndim = 3

C5_Witness ==
    /\ err = DimsError
    /\ img.ndim = 3
    /\ txt.ndim = 4

\* The number of text and image tokens forward_orig was given.
TextLen == Len(txt.toks)

ImageLen == IF img_ids = <<>> THEN 0 ELSE Len(img_ids[1])

BlocksRun == params.depth + params.depth_single_blocks

\* C6: after the concatenation the sequence holds the L text tokens and then
\* the T image tokens, each in order; what is left after the slice, and
\* handed to the final layer, is the T image tokens in order, position i
\* being the image token i that stood at L + i, every one of them having
\* gone through all the blocks.
C6_ImageTokens ==
    /\ pc = "fo_single" =>
          /\ Len(img.toks) = TextLen + ImageLen
          /\ \A j \in 1..TextLen :
                img.toks[j].src = "txt" /\ img.toks[j].idx = j
          /\ \A j \in 1..ImageLen :
                img.toks[TextLen + j].src = "img" /\ img.toks[TextLen + j].idx = j
    /\ pc \in {"fo_final", "fwd_return", "done"} =>
          /\ Len(img.toks) = ImageLen
          /\ \A j \in 1..ImageLen :
                img.toks[j] = [src |-> "img", idx |-> j, blocks |-> BlocksRun]
          /\ pc # "fo_final" => out.shape[2] = ImageLen

C6_Witness ==
    /\ pc = "done"
    /\ TextLen = 2
    /\ ImageLen = 4
    /\ BlocksRun = 0

\* The coordinates in x of the element that stands at (bi, k, f) of the
\* patch tensor.
Origin(bi, k, f) ==
    Unravel(xp.data[Ravel(<<bi, k, f>>, xp.shape) + 1], x.shape)

HasIds == entry = "forward" /\ img_ids # <<>>

\* C7: forward gives every batch element (h//2)*(w//2) image ids and
\* context.shape[1] text ids; image token k = r * (w//2) + q has id (0, r, q)
\* and is the patch of rows 2r, 2r+1 and columns 2q, 2q+1 of x; every text id
\* is (0, 0, 0).
C7_Ids ==
    HasIds =>
      /\ Len(img_ids) = x.shape[1] /\ Len(txt_ids) = x.shape[1]
      /\ \A bi \in 1..x.shape[1] :
            /\ Len(img_ids[bi]) = (x.shape[3] \div 2) * (x.shape[4] \div 2)
            /\ Len(txt_ids[bi]) = context.len
            /\ \A j \in 1..context.len : txt_ids[bi][j] = <<0, 0, 0>>
            /\ \A r \in 0..((x.shape[3] \div 2) - 1), q \in 0..((x.shape[4] \div 2) - 1) :
                  LET k == r * (x.shape[4] \div 2) + q
                  IN  /\ img_ids[bi][k + 1] = <<0, r, q>>
                      /\ \A f \in 0..(xp.shape[3] - 1) :
                            LET o == Origin(bi - 1, k, f)
                            IN  o[1] = bi - 1 /\ o[3] \div 2 = r /\ o[4] \div 2 = q

\* The id that belongs to a token, for batch element bi.
IdOf(tok, bi) ==
    IF tok.src = "txt" THEN txt_ids[bi][tok.idx] ELSE img_ids[bi][tok.idx]

\* The joint sequence the blocks work on: txt and img side by side in the
\* double-stream blocks, img alone once concatenated.
Joint == IF pc = "fo_double" THEN txt.toks \o img.toks ELSE img.toks

\* C8: while the blocks run, position i of the joint sequence holds a text
\* token for i <= L and an image token after, and pe at i is the encoding
\* of that token's own id; every block was called with the pe and the vec
\* that are still current, and the final layer with that vec.
C8_Aligned ==
    /\ pc \in {"fo_double", "fo_single"} =>
          /\ Len(pe) = Len(txt_ids)
          /\ \A bi \in 1..Len(pe) :
                /\ Len(pe[bi]) = Len(Joint)
                /\ \A j \in 1..Len(Joint) :
                      /\ (j <= TextLen) = (Joint[j].src = "txt")
                      /\ pe[bi][j] = [rope |-> IdOf(Joint[j], bi)]
    /\ \A j \in 1..Len(trace) :
          /\ trace[j].op \in {"double_blocks", "single_blocks"} =>
                trace[j].vec = vec /\ trace[j].pe = pe
          /\ trace[j].op = "final_layer" => trace[j].vec = vec
          /\ IsBlockOp(trace[j]) =>
                Count(vec, "time_in") = 1 /\ Count(vec, "vector_in") = 1

C8_Witness ==
    /\ pc = "fo_single"
    /\ TextLen = 2
    /\ ImageLen = 4
    /\ blk = 2
    /\ Len(BlockOps) = 5

====
